---- MODULE Spec2Model ----
(***************************************************************************)
(* Model of the concurrent multi-page fetch engine of go-loggly-cli:       *)
(*   orderedbuffer.OrderedBuffer  (src/orderedbuffer/orderedbuffer.go)     *)
(*   semaphore.Semaphore          (src/search/search.go, lines 461-486)    *)
(*   search.Client.Fetch / fetchAllPages (src/search/search.go, 364-459)   *)
(*                                                                         *)
(* Two families of behaviours share the variables:                         *)
(*   SpecOB    - an OrderedBuffer driven directly by concurrent callers of *)
(*               Store (the situation of orderedbuffer_test.go);            *)
(*   SpecFetch - one run of Client.Fetch, whose page-fetch tasks call      *)
(*               Store on a buffer over the unbuffered response channel.   *)
(***************************************************************************)
EXTENDS Integers, Sequences, FiniteSets, TLC

\* Highest page index / thread id of the model (indices and threads 0..MaxPage).
MaxPage == 2

\* Events requested per page: Query.size as NewQuery sets it.
PageSize == 100

\* The numbers of events a fetched page may hold: fewer than requested (a
\* short page) or as many as requested (a full page).
EventCounts == {PageSize - 1, PageSize}

Threads == 0 .. MaxPage
Indices == 0 .. MaxPage

\* A value of type T travelling through the buffer: a search.Response, of
\* which the model keeps the page index and the number of events.
Response(i, n) == [Page |-> i, Events |-> n]

VARIABLES
    \* ---- orderedbuffer.OrderedBuffer ----
    responses,      \* s.responses: map[int]T, a function on a subset of Indices
    mu,             \* s.mu: the set of threads holding the mutex ({} or {t})
    lastSentIdx,    \* s.lastSentIdx
    ch,             \* s.ch: the values buffered in the channel, oldest first
    chCap,          \* cap(s.ch); 0 is an unbuffered channel
    closed,         \* the channel has been closed
    received,       \* the values the consumer has received from s.ch, in order
    \* ---- one goroutine per thread id ----
    pc,             \* position of each thread
    sval,           \* Store's argument r (its argument i is the thread id)
    resp,           \* send's locals (resp, ok): <<>> when !ok, <<resp>> when ok
    \* ---- history ----
    overlap,        \* some Store call began while another was in progress
    \* ---- search.Query / search.Client configuration of the run ----
    maxPages,       \* q.maxPages
    concurrency,    \* c.concurrency (0 when SetConcurrency was never called)
    \* ---- semaphore.Semaphore ----
    sem,            \* len(sem.ch): permits acquired and not yet released
    semCap,         \* cap(sem.ch)
    \* ---- Client.fetchAllPages / Client.Fetch ----
    cpc,            \* position of the goroutine started by Fetch
    page,           \* the atomic page counter
    hasMore,        \* the atomic has-more flag
    callerCancelled,\* the caller's context is done
    gCancelled,     \* the errgroup has cancelled its derived context
    gerr,           \* the errgroup's first error
    retErr,         \* the error fetchAllPages returned
    terr,           \* per task: the error of its fetchAndStorePage
    errClosed,      \* errChan has been closed
    errs,           \* the errors the consumer has received from errChan
    fetched,        \* the page indices Search was invoked with, in call order
    panicked,       \* the process died of a send on the closed channel
    \* ---- the command that called Fetch (tui.go, loggly.go) ----
    cmd,            \* "executeQuery", "execCount"; "none": a plain consumer
                    \* that keeps receiving from both channels
    msg             \* what the command ended with; "none" while it selects

obVars == <<responses, mu, lastSentIdx, ch, chCap, closed, received,
            pc, sval, resp, overlap>>

fetchVars == <<cmd, msg, maxPages, concurrency, sem, semCap, cpc, page,
              hasMore, callerCancelled, gCancelled, gerr, retErr, terr,
              errClosed, errs, fetched, panicked>>

vars == <<obVars, fetchVars>>

-----------------------------------------------------------------------------
(* Maps (Go map[int]T) as functions on a finite domain.                      *)

EmptyMap == [i \in {} |-> 0]

MapSet(m, i, r) == [j \in DOMAIN m \cup {i} |-> IF j = i THEN r ELSE m[j]]

MapDelete(m, i) == [j \in DOMAIN m \ {i} |-> m[j]]

\* The values in channel order: what has been received followed by what is
\* still buffered.
Output == received \o ch

InStore(t) == pc[t] \in {"store", "send", "emit"}

-----------------------------------------------------------------------------
(* OrderedBuffer                                                             *)

\* NewOrderedBuffer(ch): empty map, lastSentIdx = -1, unlocked mutex.
NewOrderedBuffer ==
    /\ responses = EmptyMap
    /\ lastSentIdx = 0 - 1
    /\ mu = {}

\* Where Store goes after its insertion: line 96 calls s.send().
AfterInsertReturn == "ret"
AfterInsert == "send"

\* Store, lines 92-96: s.mu.Lock(); s.responses[i] = r; s.mu.Unlock(); then
\* s.send(). The critical section touches only the buffer's own fields, so
\* it is one step, taken when the mutex is free and leaving it free.
StoreInsert(t) ==
    /\ pc[t] = "store"
    /\ mu = {}
    /\ mu' = {}
    /\ responses' = MapSet(responses, t, sval[t])
    /\ pc' = [pc EXCEPT ![t] = AfterInsert]
    /\ UNCHANGED <<lastSentIdx, ch, chCap, closed, received, sval, resp, overlap>>

\* send with lines 83-84 left out: the entry is read but neither removed nor
\* is the cursor advanced.
SendPopPeek(t) ==
    /\ pc[t] = "send"
    /\ mu = {}
    /\ mu' = {}
    /\ LET newIdx == lastSentIdx + 1
       IN  IF newIdx \in DOMAIN responses
           THEN /\ resp' = [resp EXCEPT ![t] = <<responses[newIdx]>>]
                /\ pc' = [pc EXCEPT ![t] = "emit"]
           ELSE /\ resp' = [resp EXCEPT ![t] = <<>>]
                /\ pc' = [pc EXCEPT ![t] = "ret"]
    /\ UNCHANGED <<responses, lastSentIdx, ch, chCap, closed, received, sval, overlap>>

\* send with the unlock of line 85 moved after the channel send: the caller
\* goes on to the channel send still holding the mutex.
SendPopHolding(t) ==
    /\ pc[t] = "send"
    /\ mu = {}
    /\ LET newIdx == lastSentIdx + 1
       IN  IF newIdx \in DOMAIN responses
           THEN /\ resp' = [resp EXCEPT ![t] = <<responses[newIdx]>>]
                /\ lastSentIdx' = newIdx
                /\ responses' = MapDelete(responses, newIdx)
                /\ pc' = [pc EXCEPT ![t] = "emit"]
                /\ mu' = {t}
           ELSE /\ resp' = [resp EXCEPT ![t] = <<>>]
                /\ pc' = [pc EXCEPT ![t] = "ret"]
                /\ mu' = {}
                /\ UNCHANGED <<lastSentIdx, responses>>
    /\ UNCHANGED <<ch, chCap, closed, received, sval, overlap>>

\* send with the delete of line 84 left out: the cursor advances and the
\* entry stays in the map.
SendPopNoDelete(t) ==
    /\ pc[t] = "send"
    /\ mu = {}
    /\ mu' = {}
    /\ LET newIdx == lastSentIdx + 1
       IN  IF newIdx \in DOMAIN responses
           THEN /\ resp' = [resp EXCEPT ![t] = <<responses[newIdx]>>]
                /\ lastSentIdx' = newIdx
                /\ pc' = [pc EXCEPT ![t] = "emit"]
                /\ UNCHANGED responses
           ELSE /\ resp' = [resp EXCEPT ![t] = <<>>]
                /\ pc' = [pc EXCEPT ![t] = "ret"]
                /\ UNCHANGED <<lastSentIdx, responses>>
    /\ UNCHANGED <<ch, chCap, closed, received, sval, overlap>>

\* send looking for the lowest index above the cursor that is in the map
\* instead of the index right after the cursor: a missing index is skipped.
SendPopAny(t) ==
    /\ pc[t] = "send"
    /\ mu = {}
    /\ mu' = {}
    /\ LET ready == {i \in DOMAIN responses : i > lastSentIdx}
       IN  IF ready # {}
           THEN LET newIdx == CHOOSE i \in ready : \A j \in ready : i <= j
                IN  /\ resp' = [resp EXCEPT ![t] = <<responses[newIdx]>>]
                    /\ lastSentIdx' = newIdx
                    /\ responses' = MapDelete(responses, newIdx)
                    /\ pc' = [pc EXCEPT ![t] = "emit"]
           ELSE /\ resp' = [resp EXCEPT ![t] = <<>>]
                /\ pc' = [pc EXCEPT ![t] = "ret"]
                /\ UNCHANGED <<lastSentIdx, responses>>
    /\ UNCHANGED <<ch, chCap, closed, received, sval, overlap>>

\* send, lines 76-85, one critical section: lock, look up lastSentIdx+1;
\* when it is missing unlock and return (lines 79-81), otherwise advance the
\* cursor, delete the entry, unlock (lines 83-85) and go on to the channel
\* send, which happens outside the mutex.
SendPop(t) ==
    /\ pc[t] = "send"
    /\ mu = {}
    /\ mu' = {}
    /\ LET newIdx == lastSentIdx + 1
       IN  IF newIdx \in DOMAIN responses
           THEN /\ resp' = [resp EXCEPT ![t] = <<responses[newIdx]>>]
                /\ lastSentIdx' = newIdx
                /\ responses' = MapDelete(responses, newIdx)
                /\ pc' = [pc EXCEPT ![t] = "emit"]
           ELSE /\ resp' = [resp EXCEPT ![t] = <<>>]
                /\ pc' = [pc EXCEPT ![t] = "ret"]
                /\ UNCHANGED <<lastSentIdx, responses>>
    /\ UNCHANGED <<ch, chCap, closed, received, sval, overlap>>

\* Where send goes after the channel send: the for loop of line 75.
AfterEmitReturn == "ret"
AfterEmit == "send"

\* A send on the channel can complete: a buffered channel has room, an
\* unbuffered one has its receiver waiting (the consumer keeps receiving).
CanSend == Len(ch) < chCap \/ chCap = 0

\* send, line 87: s.ch <- resp
Emit(t) ==
    /\ pc[t] = "emit"
    /\ ~closed
    /\ CanSend
    /\ IF chCap = 0
       THEN received' = Append(received, resp[t][1]) /\ UNCHANGED ch
       ELSE ch' = Append(ch, resp[t][1]) /\ UNCHANGED received
    /\ pc' = [pc EXCEPT ![t] = AfterEmit]
    /\ resp' = [resp EXCEPT ![t] = <<>>]
    /\ UNCHANGED <<responses, mu, lastSentIdx, chCap, closed, sval, overlap>>

\* The consumer receives the oldest buffered value: <-ch
Recv ==
    /\ ch # <<>>
    /\ received' = Append(received, Head(ch))
    /\ ch' = Tail(ch)
    /\ UNCHANGED <<responses, mu, lastSentIdx, chCap, closed, pc, sval,
                   resp, overlap>>

BufferStep(t) ==
    \/ StoreInsert(t)
    \/ SendPop(t)
    \/ Emit(t)

-----------------------------------------------------------------------------
(* SpecOB: callers of Store, as in orderedbuffer_test.go                     *)

\* No Fetch is running: the variables of the fetch engine at rest.
NoFetch ==
    /\ cmd = "none"
    /\ msg = "none"
    /\ maxPages = 0
    /\ concurrency = 0
    /\ sem = 0
    /\ semCap = 0
    /\ cpc = "none"
    /\ page = 0 - 1
    /\ hasMore = TRUE
    /\ callerCancelled = FALSE
    /\ gCancelled = FALSE
    /\ gerr = "nil"
    /\ retErr = "nil"
    /\ terr = [t \in Threads |-> "nil"]
    /\ errClosed = FALSE
    /\ errs = <<>>
    /\ fetched = <<>>
    /\ panicked = FALSE

\* The value the caller of Store(i, ...) passes for index i.
Payload(i) == Response(i, PageSize)

\* A caller (its own goroutine, or the test's goroutine between two calls)
\* invokes buf.Store(t, Payload(t)); thread t is the one call for index t, so
\* every index is stored at most once.
StoreCall(t) ==
    /\ pc[t] = "idle"
    /\ pc' = [pc EXCEPT ![t] = "store"]
    /\ sval' = [sval EXCEPT ![t] = Payload(t)]
    /\ overlap' = (overlap \/ \E u \in Threads \ {t} : InStore(u))
    /\ UNCHANGED <<responses, mu, lastSentIdx, ch, chCap, closed, received,
                   resp>>

\* ch := make(chan T, c); buf := NewOrderedBuffer(ch)
InitOB ==
    /\ NewOrderedBuffer
    /\ chCap \in 0 .. (MaxPage + 1)
    /\ ch = <<>>
    /\ closed = FALSE
    /\ received = <<>>
    /\ pc = [t \in Threads |-> "idle"]
    /\ sval = [t \in Threads |-> Response(0, 0)]
    /\ resp = [t \in Threads |-> <<>>]
    /\ overlap = FALSE
    /\ NoFetch

\* A step of a goroutine inside Store, outside any Fetch.
OBStep(t) == BufferStep(t) /\ UNCHANGED fetchVars

OBRecv == Recv /\ UNCHANGED fetchVars

NextOB ==
    \/ \E t \in Threads : StoreCall(t) /\ UNCHANGED fetchVars
    \/ \E t \in Threads : OBStep(t)
    \/ OBRecv

SpecOB == InitOB /\ [][NextOB]_vars

\* Every goroutine inside Store keeps running and the consumer keeps
\* receiving (Go's scheduler and sync.Mutex starve no goroutine).
FairSpecOB ==
    /\ SpecOB
    /\ \A t \in Threads : WF_vars(OBStep(t))
    /\ WF_vars(OBRecv)

-----------------------------------------------------------------------------
(* Properties of the OrderedBuffer under SpecOB / FairSpecOB                 *)

\* The threads that have called Store.
Called == {t \in Threads : pc[t] # "idle"}

AllReturned == \A t \in Threads : pc[t] = "ret"

PagesOf(seq) == {seq[k].Page : k \in 1 .. Len(seq)}

\* C1: whatever the interleaving of the concurrent Store calls, the values
\* on the output channel are p_0, p_1, ... in exactly that order: at every
\* moment the k-th value of the channel is the one stored for index k-1.
OBOutputInIndexOrder ==
    \A k \in 1 .. Len(Output) : Output[k] = Payload(k - 1)

\* C7: no index is emitted on the output channel more than once.
OBNoIndexEmittedTwice ==
    \A j, k \in 1 .. Len(Output) :
        j # k => Output[j].Page # Output[k].Page

\* Overlapping Store calls have emitted every index.
OBAllEmittedConcurrently ==
    /\ overlap
    /\ Len(Output) = MaxPage + 1

\* C8: once every index of 0..i has been stored, the consumer eventually
\* receives the value of index i; and when all Store calls have returned no
\* deliverable entry (the next expected index) is left in the map.
OBReadyEventuallyDelivered ==
    /\ \A i \in Indices :
          (\A j \in 0 .. i : pc[j] # "idle") ~> (i \in PagesOf(received))
    /\ [](AllReturned => (lastSentIdx + 1) \notin DOMAIN responses)

\* Every Store call has returned, the map is empty and the consumer has
\* received every index.
OBAllDelivered ==
    /\ AllReturned
    /\ responses = EmptyMap
    /\ PagesOf(received) = Indices

\* C9: Store calls that never overlap, on a channel with room for all of
\* them: no channel send ever finds the channel full (even if the consumer
\* has received nothing), and once the calls for 0..N-1 have returned the
\* channel holds p_0 .. p_{N-1} in that order.
OBSequentialStores ==
    LET n == Cardinality(Called)
    IN  (~overlap /\ chCap >= n) =>
            /\ \A t \in Threads : pc[t] = "emit" => Len(Output) < chCap
            /\ (Called = 0 .. (n - 1) /\ \A t \in Called : pc[t] = "ret")
                  => Output = [k \in 1 .. n |-> Payload(k - 1)]

\* A single caller has stored every index, one call after another, and the
\* channel holds all the values, none received yet.
OBSequentialAllBuffered ==
    /\ ~overlap
    /\ AllReturned
    /\ received = <<>>
    /\ Len(ch) = MaxPage + 1

-----------------------------------------------------------------------------
(* semaphore.Semaphore: a buffered channel of capacity n                     *)

\* Highest configured concurrency of the modelled runs.
MaxConcurrency == 2

Min(a, b) == IF a < b THEN a ELSE b

\* search.go line 402: concurrent := min(q.maxPages, c.concurrency.Load())
SemaphoreSize(mp, conc) == Min(mp, conc)

\* Acquire's case `s.ch <- struct{}{}` can proceed: the channel has room.
\* (With capacity 0 the channel is unbuffered and needs a receiver inside
\* Release, which only a launched task calls while it holds a permit.)
SlotFreeAlways(n, cap) == TRUE
SlotFree(n, cap) == n < cap

\* ctx.Done() of the context fetchAllPages uses after line 412: the
\* errgroup's context, done when the caller's context is done or the group
\* has cancelled it.
CtxDone == callerCancelled \/ gCancelled

-----------------------------------------------------------------------------
(* Client.fetchAllPages and Client.Fetch                                     *)

\* shouldStopFetching comparing with <= : a full page stops the fetching too.
ShouldStopFetchingInclusive(err, n, pageSize) ==
    IF err # "nil" THEN TRUE ELSE n <= pageSize

\* shouldStopFetching(err, res, pageSize), with n = len(res.Events); res is
\* nil exactly when err is not.
ShouldStopFetching(err, n, pageSize) ==
    IF err # "nil" THEN TRUE ELSE n < pageSize

\* Line 430: shouldBreak := page.Load() >= q.maxPages || !hasMore.Load()
ShouldBreakAfter(pg, mp, more) == pg > mp \/ ~more
ShouldBreak(pg, mp, more) == pg >= mp \/ ~more

\* Line 406: page.Store(-1), so that the first page.Add(1) yields index 0.
InitialPageZero == 1 - 1
InitialPage == 0 - 1

\* errors.Is(e, context.Canceled): ctx.Err() itself ("canceled", which is
\* also what a page fetch cut short by its context is recorded as) and the
\* request error of a CreateSearch cut short by the caller's context.
IsCancellation(e) == e \in {"canceled", "createCanceled"}

Launched == {p \in Threads : pc[p] # "idle"}

Running == {p \in Threads : pc[p] \notin {"idle", "done"}}

\* CreateSearch fails and nothing else happens: the error is kept but the
\* deferred close(resChan) of line 395 is missing.
CreateSearchFailsNoClose ==
    /\ ~panicked
    /\ cpc = "create"
    /\ retErr' = (IF callerCancelled THEN "createCanceled" ELSE "create")
    /\ cpc' = "returned"
    /\ UNCHANGED obVars
    /\ UNCHANGED <<cmd, msg,
                   maxPages, concurrency, sem, semCap, page, hasMore,
                   callerCancelled, gCancelled, gerr, terr, errClosed, errs,
                   fetched, panicked>>

\* Lines 396-400: CreateSearch fails: at the endpoint ("create"), or because
\* the caller's context is done, which the HTTP client reports as an error
\* of the request that wraps context.Canceled ("createCanceled");
\* fetchAllPages returns the error and its deferred close(resChan) runs.
CreateSearchFails ==
    /\ ~panicked
    /\ cpc = "create"
    /\ retErr' = (IF callerCancelled THEN "createCanceled" ELSE "create")
    /\ closed' = TRUE
    /\ cpc' = "returned"
    /\ UNCHANGED <<responses, mu, lastSentIdx, ch, chCap, received, pc, sval,
                   resp, overlap>>
    /\ UNCHANGED <<cmd, msg,
                   maxPages, concurrency, sem, semCap, page, hasMore,
                   callerCancelled, gCancelled, gerr, terr, errClosed, errs,
                   fetched, panicked>>

\* Lines 396-412: CreateSearch succeeds; the semaphore, the page counter,
\* the has-more flag, the OrderedBuffer and the errgroup are set up.
CreateSearchOk ==
    /\ ~panicked
    /\ cpc = "create"
    /\ ~callerCancelled
    /\ semCap' = SemaphoreSize(maxPages, concurrency)
    /\ sem' = 0
    /\ page' = InitialPage
    /\ hasMore' = TRUE
    /\ cpc' = "acquire"
    /\ UNCHANGED obVars
    /\ UNCHANGED <<cmd, msg,
                   maxPages, concurrency, callerCancelled, gCancelled, gerr,
                   retErr, terr, errClosed, errs, fetched, panicked>>

\* Lines 415 and 479-480: Acquire takes a slot and returns nil.
AcquireSlot ==
    /\ ~panicked
    /\ cpc = "acquire"
    /\ SlotFree(sem, semCap)
    /\ sem' = sem + 1
    /\ cpc' = "launch"
    /\ UNCHANGED obVars
    /\ UNCHANGED <<cmd, msg,
                   maxPages, concurrency, semCap, page, hasMore,
                   callerCancelled, gCancelled, gerr, retErr, terr, errClosed,
                   errs, fetched, panicked>>

\* Lines 415-416 and 477-478: Acquire returns ctx.Err(); fetchAllPages
\* returns it at once, without errg.Wait(), and close(resChan) runs.
AcquireCancelled ==
    /\ ~panicked
    /\ cpc = "acquire"
    /\ CtxDone
    /\ retErr' = "canceled"
    /\ closed' = TRUE
    /\ cpc' = "returned"
    /\ UNCHANGED <<responses, mu, lastSentIdx, ch, chCap, received, pc, sval,
                   resp, overlap>>
    /\ UNCHANGED <<cmd, msg,
                   maxPages, concurrency, sem, semCap, page, hasMore,
                   callerCancelled, gCancelled, gerr, terr, errClosed, errs,
                   fetched, panicked>>

\* Lines 418-422: p := page.Add(1); errg.Go starts the task, whose first
\* statement invokes c.Search(ctx, j, p) through fetchAndStorePage.
Launch ==
    /\ ~panicked
    /\ cpc = "launch"
    /\ page' = page + 1
    /\ pc' = [pc EXCEPT ![page + 1] = "search"]
    /\ fetched' = Append(fetched, page + 1)
    /\ cpc' = "check"
    /\ UNCHANGED <<responses, mu, lastSentIdx, ch, chCap, closed, received,
                   sval, resp, overlap>>
    /\ UNCHANGED <<cmd, msg,
                   maxPages, concurrency, sem, semCap, hasMore,
                   callerCancelled, gCancelled, gerr, retErr, terr, errClosed,
                   errs, panicked>>

\* Lines 430-434: leave the loop or go round again.
CheckBreak ==
    /\ ~panicked
    /\ cpc = "check"
    /\ cpc' = IF ShouldBreak(page, maxPages, hasMore) THEN "wait" ELSE "acquire"
    /\ UNCHANGED obVars
    /\ UNCHANGED <<cmd, msg,
                   maxPages, concurrency, sem, semCap, page, hasMore,
                   callerCancelled, gCancelled, gerr, retErr, terr, errClosed,
                   errs, fetched, panicked>>

\* errg.Wait() returns and fetchAllPages ends without the deferred
\* close(resChan) of line 395.
WaitNoClose ==
    /\ ~panicked
    /\ cpc = "wait"
    /\ Running = {}
    /\ gCancelled' = TRUE
    /\ retErr' = gerr
    /\ cpc' = "returned"
    /\ UNCHANGED obVars
    /\ UNCHANGED <<cmd, msg,
                   maxPages, concurrency, sem, semCap, page, hasMore,
                   callerCancelled, gerr, terr, errClosed, errs, fetched,
                   panicked>>

\* Line 437: errg.Wait() returns once every task has finished; it cancels
\* the group's context and yields the first error; close(resChan) runs.
Wait ==
    /\ ~panicked
    /\ cpc = "wait"
    /\ Running = {}
    /\ gCancelled' = TRUE
    /\ retErr' = gerr
    /\ closed' = TRUE
    /\ cpc' = "returned"
    /\ UNCHANGED <<responses, mu, lastSentIdx, ch, chCap, received, pc, sval,
                   resp, overlap>>
    /\ UNCHANGED <<cmd, msg,
                   maxPages, concurrency, sem, semCap, page, hasMore,
                   callerCancelled, gerr, terr, errClosed, errs, fetched,
                   panicked>>

\* Fetch, lines 453-455: errChan <- err, received by the consumer.
SendErr ==
    /\ ~panicked
    /\ cpc = "returned"
    /\ retErr # "nil"
    /\ errs' = Append(errs, retErr)
    /\ cpc' = "closing"
    /\ UNCHANGED obVars
    /\ UNCHANGED <<cmd, msg,
                   maxPages, concurrency, sem, semCap, page, hasMore,
                   callerCancelled, gCancelled, gerr, retErr, terr, errClosed,
                   fetched, panicked>>

\* Fetch, line 451: the deferred close(errChan).
CloseErr ==
    /\ ~panicked
    /\ \/ cpc = "closing"
       \/ cpc = "returned" /\ retErr = "nil"
    /\ errClosed' = TRUE
    /\ cpc' = "done"
    /\ UNCHANGED obVars
    /\ UNCHANGED <<cmd, msg,
                   maxPages, concurrency, sem, semCap, page, hasMore,
                   callerCancelled, gCancelled, gerr, retErr, terr, errs,
                   fetched, panicked>>

\* c.Search returns a response with n events whether or not its context is
\* done: the request is not bound to the context.
SearchOkIgnoringCtx(p, n) ==
    /\ ~panicked
    /\ pc[p] = "search"
    /\ terr' = [terr EXCEPT ![p] = "nil"]
    /\ sval' = [sval EXCEPT ![p] = Response(p, n)]
    /\ pc' = [pc EXCEPT ![p] = "store"]
    /\ UNCHANGED <<responses, mu, lastSentIdx, ch, chCap, closed, received,
                   resp, overlap>>
    /\ UNCHANGED <<cmd, msg,
                   maxPages, concurrency, sem, semCap, cpc, page, hasMore,
                   callerCancelled, gCancelled, gerr, retErr, errClosed, errs,
                   fetched, panicked>>

\* fetchAndStorePage, lines 370-376: c.Search returns a response with n
\* events, and the task calls responsesStore.Store(page, *res).  The request
\* carries the task's context (lines 288-297), and a request whose context is
\* done returns an error instead.
SearchOk(p, n) ==
    /\ ~panicked
    /\ pc[p] = "search"
    /\ ~CtxDone
    /\ terr' = [terr EXCEPT ![p] = "nil"]
    /\ sval' = [sval EXCEPT ![p] = Response(p, n)]
    /\ pc' = [pc EXCEPT ![p] = "store"]
    /\ UNCHANGED <<responses, mu, lastSentIdx, ch, chCap, closed, received,
                   resp, overlap>>
    /\ UNCHANGED <<cmd, msg,
                   maxPages, concurrency, sem, semCap, cpc, page, hasMore,
                   callerCancelled, gCancelled, gerr, retErr, errClosed, errs,
                   fetched, panicked>>

\* fetchAndStorePage, lines 370-373: c.Search returns an error: the request
\* failed at the endpoint, or its context is done.
SearchFails(p) ==
    /\ ~panicked
    /\ pc[p] = "search"
    /\ terr' = [terr EXCEPT ![p] = IF CtxDone THEN "canceled" ELSE "fetch"]
    /\ pc' = [pc EXCEPT ![p] = "failed"]
    /\ UNCHANGED <<responses, mu, lastSentIdx, ch, chCap, closed, received,
                   sval, resp, overlap>>
    /\ UNCHANGED <<cmd, msg,
                   maxPages, concurrency, sem, semCap, cpc, page, hasMore,
                   callerCancelled, gCancelled, gerr, retErr, errClosed, errs,
                   fetched, panicked>>

\* The task body storing the negated verdict, hasMore.Store(!stop), instead
\* of only ever storing false.
TaskDecideAssign(p) ==
    /\ ~panicked
    /\ pc[p] \in {"ret", "failed"}
    /\ hasMore' = ~ShouldStopFetching(terr[p], sval[p].Events, PageSize)
    /\ pc' = [pc EXCEPT ![p] = "release"]
    /\ UNCHANGED <<responses, mu, lastSentIdx, ch, chCap, closed, received,
                   sval, resp, overlap>>
    /\ UNCHANGED <<cmd, msg,
                   maxPages, concurrency, sem, semCap, cpc, page,
                   callerCancelled, gCancelled, gerr, retErr, terr, errClosed,
                   errs, fetched, panicked>>

\* Lines 424-426: if shouldStopFetching(err, res, q.size) { hasMore.Store(false) }
TaskDecide(p) ==
    /\ ~panicked
    /\ pc[p] \in {"ret", "failed"}
    /\ hasMore' = IF ShouldStopFetching(terr[p], sval[p].Events, PageSize)
                  THEN FALSE ELSE hasMore
    /\ pc' = [pc EXCEPT ![p] = "release"]
    /\ UNCHANGED <<responses, mu, lastSentIdx, ch, chCap, closed, received,
                   sval, resp, overlap>>
    /\ UNCHANGED <<cmd, msg,
                   maxPages, concurrency, sem, semCap, cpc, page,
                   callerCancelled, gCancelled, gerr, retErr, terr, errClosed,
                   errs, fetched, panicked>>

\* The task body without its deferred sem.Release(): the task ends and its
\* slot stays occupied.
TaskReleaseNone(p) ==
    /\ ~panicked
    /\ pc[p] = "release"
    /\ pc' = [pc EXCEPT ![p] = IF terr[p] = "nil" THEN "done" ELSE "exit"]
    /\ UNCHANGED <<responses, mu, lastSentIdx, ch, chCap, closed, received,
                   sval, resp, overlap>>
    /\ UNCHANGED <<cmd, msg,
                   maxPages, concurrency, sem, semCap, cpc, page, hasMore,
                   callerCancelled, gCancelled, gerr, retErr, terr, errClosed,
                   errs, fetched, panicked>>

\* Lines 420 and 484-486: the deferred sem.Release(): <-s.ch. A task whose
\* error is nil then only leaves the group (errgroup.Go: wg.Done).
TaskRelease(p) ==
    /\ ~panicked
    /\ pc[p] = "release"
    /\ sem > 0
    /\ sem' = sem - 1
    /\ pc' = [pc EXCEPT ![p] = IF terr[p] = "nil" THEN "done" ELSE "exit"]
    /\ UNCHANGED <<responses, mu, lastSentIdx, ch, chCap, closed, received,
                   sval, resp, overlap>>
    /\ UNCHANGED <<cmd, msg,
                   maxPages, concurrency, semCap, cpc, page, hasMore,
                   callerCancelled, gCancelled, gerr, retErr, terr, errClosed,
                   errs, fetched, panicked>>

\* A failing task that, besides returning its error to the group, sends it
\* on the error channel itself.
TaskExitSends(p) ==
    /\ ~panicked
    /\ pc[p] = "exit"
    /\ IF gerr = "nil"
       THEN gerr' = terr[p] /\ gCancelled' = TRUE
       ELSE UNCHANGED <<gerr, gCancelled>>
    /\ errs' = Append(errs, terr[p])
    /\ pc' = [pc EXCEPT ![p] = "done"]
    /\ UNCHANGED <<responses, mu, lastSentIdx, ch, chCap, closed, received,
                   sval, resp, overlap>>
    /\ UNCHANGED <<cmd, msg,
                   maxPages, concurrency, sem, semCap, cpc, page, hasMore,
                   callerCancelled, retErr, terr, errClosed, fetched,
                   panicked>>

\* Line 427 and errgroup.Go: the task returns a non-nil err; the first such
\* error is kept by the group, which cancels its context; the task is done.
TaskExit(p) ==
    /\ ~panicked
    /\ pc[p] = "exit"
    /\ IF gerr = "nil"
       THEN gerr' = terr[p] /\ gCancelled' = TRUE
       ELSE UNCHANGED <<gerr, gCancelled>>
    /\ pc' = [pc EXCEPT ![p] = "done"]
    /\ UNCHANGED <<responses, mu, lastSentIdx, ch, chCap, closed, received,
                   sval, resp, overlap>>
    /\ UNCHANGED <<cmd, msg,
                   maxPages, concurrency, sem, semCap, cpc, page, hasMore,
                   callerCancelled, retErr, terr, errClosed, errs, fetched,
                   panicked>>

\* orderedbuffer.go line 87 after fetchAllPages has closed resChan: a send
\* on a closed channel panics and the process dies.
EmitPanic(t) ==
    /\ ~panicked
    /\ pc[t] = "emit"
    /\ closed
    /\ panicked' = TRUE
    /\ UNCHANGED obVars
    /\ UNCHANGED <<cmd, msg,
                   maxPages, concurrency, sem, semCap, cpc, page, hasMore,
                   callerCancelled, gCancelled, gerr, retErr, terr, errClosed,
                   errs, fetched>>

\* The caller cancels the context it passed to Fetch (loggly.go, lines
\* 207-221: an interrupt signal).
Cancel ==
    /\ ~panicked
    /\ ~callerCancelled
    /\ cpc # "done"
    /\ callerCancelled' = TRUE
    /\ UNCHANGED obVars
    /\ UNCHANGED <<cmd, msg,
                   maxPages, concurrency, sem, semCap, cpc, page, hasMore,
                   gCancelled, gerr, retErr, terr, errClosed, errs, fetched,
                   panicked>>

\* Fetch(ctx, q) has just been called: resChan and errChan are unbuffered,
\* the goroutine of line 450 is about to call fetchAllPages.
InitFetch ==
    /\ NewOrderedBuffer
    /\ chCap = 0
    /\ ch = <<>>
    /\ closed = FALSE
    /\ received = <<>>
    /\ pc = [t \in Threads |-> "idle"]
    /\ sval = [t \in Threads |-> Response(0, 0)]
    /\ resp = [t \in Threads |-> <<>>]
    /\ overlap = FALSE
    /\ cmd = "none"
    /\ msg = "none"
    /\ maxPages \in 0 .. MaxPage
    /\ concurrency \in 0 .. MaxConcurrency
    /\ sem = 0
    /\ semCap = 0
    /\ cpc = "create"
    /\ page = 0 - 1
    /\ hasMore = TRUE
    /\ callerCancelled = FALSE
    /\ gCancelled = FALSE
    /\ gerr = "nil"
    /\ retErr = "nil"
    /\ terr = [t \in Threads |-> "nil"]
    /\ errClosed = FALSE
    /\ errs = <<>>
    /\ fetched = <<>>
    /\ panicked = FALSE

\* A step of a page-fetch task inside responsesStore.Store.
TaskBufferStep(p) ==
    /\ ~panicked
    /\ BufferStep(p)
    /\ UNCHANGED fetchVars

TaskStep(p) ==
    \/ \E n \in EventCounts : SearchOk(p, n)
    \/ SearchFails(p)
    \/ TaskBufferStep(p)
    \/ EmitPanic(p)
    \/ TaskDecide(p)
    \/ TaskRelease(p)
    \/ TaskExit(p)

CoordinatorStep ==
    \/ CreateSearchFails
    \/ CreateSearchOk
    \/ AcquireSlot
    \/ AcquireCancelled
    \/ Launch
    \/ CheckBreak
    \/ Wait
    \/ SendErr
    \/ CloseErr

NextFetch ==
    \/ CoordinatorStep
    \/ \E p \in Threads : TaskStep(p)
    \/ Cancel

SpecFetch == InitFetch /\ [][NextFetch]_vars

\* The goroutine started by Fetch and every launched task keep running:
\* the remote calls all return and the consumer keeps receiving from both
\* channels. Nothing obliges the caller to cancel.
FairSpecFetch ==
    /\ SpecFetch
    /\ WF_vars(CoordinatorStep)
    /\ \A p \in Threads : WF_vars(TaskStep(p))

-----------------------------------------------------------------------------
(* Properties of one run of Fetch under SpecFetch                            *)

PageSeq(seq) == [k \in 1 .. Len(seq) |-> seq[k].Page]

\* The tasks holding a permit: launched and not yet past sem.Release().
InFlight ==
    {p \in Threads :
        pc[p] \in {"search", "store", "send", "emit", "ret", "failed", "release"}}

\* The endpoint of this run serves a result set whose pages 0..K-1 are full
\* and whose page K is short: every page below K that was fetched came back
\* full, page K was fetched and came back short, whatever was fetched beyond
\* K came back short as well, and no request failed.
ShortPageAt(K) ==
    /\ K \in Launched
    /\ \A p \in Launched :
          /\ pc[p] # "search"
          /\ terr[p] = "nil"
          /\ sval[p].Events = (IF p < K THEN PageSize ELSE PageSize - 1)

\* The run is over: both channels are closed.
FetchOver == cpc = "done" /\ closed /\ errClosed

\* C2: the page indices received on the response channel are strictly
\* ascending, whatever the endpoint does and in whatever order tasks finish.
FetchPagesAscending ==
    \A j, k \in 1 .. Len(received) :
        j < k => received[j].Page < received[k].Page

\* C3: full pages 0..K-1, a short page at K <= maxPages, no cancellation:
\* when the run is over exactly the pages 0..K have been delivered, in that
\* order, and no error was sent.
FetchDeliversUpToShortPage ==
    \A K \in 0 .. MaxPage :
        (FetchOver /\ ~callerCancelled /\ K <= maxPages /\ ShortPageAt(K))
            => /\ PageSeq(received) = [k \in 1 .. K + 1 |-> k - 1]
               /\ errs = <<>>

\* C4: in the same situation exactly K+1 page fetches were issued.
FetchCallsUpToShortPage ==
    \A K \in 0 .. MaxPage :
        (FetchOver /\ ~callerCancelled /\ K <= maxPages /\ ShortPageAt(K))
            => Len(fetched) = K + 1

\* C5: no page fetch is ever issued for a page index above maxPages.
FetchNeverBeyondMaxPages ==
    \A k \in 1 .. Len(fetched) : fetched[k] <= maxPages

\* The bound is what ended the scheduling: every page up to index
\* maxPages >= 1 was fetched while has-more was still true.
FetchReachedMaxPages ==
    /\ maxPages >= 1
    /\ cpc = "wait"
    /\ hasMore
    /\ Len(fetched) = maxPages + 1

\* C6: maxPages = n >= 1 is the maximum number of pages queried: at most n
\* page fetches are issued and at most n pages delivered.
FetchAtMostMaxPagesCalls ==
    maxPages >= 1 =>
        /\ Len(fetched) <= maxPages
        /\ Len(received) <= maxPages

\* C10: the permits acquired and not released, and with them the page-fetch
\* tasks in flight, never exceed min(maxPages, concurrency), hence never the
\* configured concurrency.
FetchPermitsWithinLimit ==
    /\ sem <= Min(maxPages, concurrency)
    /\ Cardinality(InFlight) <= sem
    /\ Cardinality(InFlight) <= concurrency

\* Every permit of a semaphore of two or more is held by a task in flight.
FetchAllPermitsHeld ==
    /\ semCap >= 2
    /\ sem = semCap
    /\ Cardinality(InFlight) = semCap

-----------------------------------------------------------------------------
(* Conclusion, errors and cancellation of one run of Fetch                   *)

\* C11: on every run whose remote calls all return and whose caller keeps
\* receiving from both channels, the response channel and the error channel
\* are both eventually closed, for every maxPages >= 0 and every concurrency,
\* the unset (zero) values of execCount included.
FetchBothChannelsEventuallyClosed == <>(closed /\ errClosed)

\* C12: once the limiter exists its capacity is
\* max(1, min(concurrency, maxPages)), never 0, so the first Acquire of a run
\* whose context is not done finds a free slot.
FetchLimiterCapacityFloorOne ==
    cpc \in {"acquire", "launch", "check", "wait"} =>
        /\ semCap = (IF Min(concurrency, maxPages) < 1
                       THEN 1 ELSE Min(concurrency, maxPages))
        /\ semCap >= 1
        /\ (cpc = "acquire" /\ page = InitialPage /\ ~CtxDone)
              => SlotFree(sem, semCap)

\* CreateSearch returned an error.
CreateFailed == retErr \in {"create", "createCanceled"}

\* C13: if CreateSearch fails, no page fetch is issued, no page is delivered,
\* the response channel is closed, and the error sent on the error channel is
\* the creation error and nothing else.
FetchCreateFailureConcludes ==
    CreateFailed =>
        /\ fetched = <<>>
        /\ Launched = {}
        /\ received = <<>>
        /\ closed
        /\ cpc \in {"returned", "closing", "done"}
        /\ (cpc = "returned" => errs = <<>>)
        /\ (cpc \in {"closing", "done"} => errs = <<retErr>>)

\* The creation failed at the endpoint and the run is over with that error
\* sent.
FetchCreateErrorSent ==
    /\ retErr = "create"
    /\ FetchOver
    /\ errs = <<"create">>

\* The endpoint failed the fetch of page M and of no other page.
FailsOnlyAt(M) ==
    /\ M \in Launched
    /\ terr[M] = "fetch"
    /\ \A p \in Threads \ {M} : terr[p] # "fetch"

\* C14: when the endpoint fails the fetch of page M and no other, no page with
\* index M or above is delivered, and the delivered pages have ascending
\* indices below M.
FetchFailureDeliversPrefix ==
    \A M \in Threads :
        FailsOnlyAt(M) =>
            /\ \A k \in 1 .. Len(received) : received[k].Page < M
            /\ \A j, k \in 1 .. Len(received) :
                  j < k => received[j].Page < received[k].Page

\* Some page-fetch task of the run has failed.
SomeTaskFailed == \E p \in Threads : terr[p] # "nil"

\* C15: whenever a page-fetch task fails, an error is eventually sent on the
\* error channel, which is not closed before that.
FetchFailureSurfaces ==
    /\ SomeTaskFailed ~> (errs # <<>>)
    /\ [](SomeTaskFailed /\ errClosed => errs # <<>>)

\* C16: when the caller never cancels, no error sent on the error channel is
\* a context-cancelled error: a failed page fetch surfaces as its own error.
FetchNoCancellationErrorUncancelled ==
    ~callerCancelled =>
        \A k \in 1 .. Len(errs) : ~IsCancellation(errs[k])

\* The caller's token was triggered before any page fetch completed: the
\* token is triggered and every launched page fetch is still under way or
\* was cut short by its context.  (A creation that had already failed at the
\* endpoint is a run that is over, not one that is cancelled.)
CancelledBeforeAnyPage ==
    /\ callerCancelled
    /\ retErr # "create"
    /\ \A p \in Launched : pc[p] = "search" \/ terr[p] = "canceled"

\* C17: if the caller's token is triggered before any page fetch has
\* completed, then no page fetch completes with a page afterwards, no page is
\* delivered, and the one error sent on the error channel is a cancellation
\* error.
FetchEarlyCancelDeliversNothing ==
    /\ [][CancelledBeforeAnyPage => CancelledBeforeAnyPage']_vars
    /\ [](CancelledBeforeAnyPage =>
             /\ received = <<>>
             /\ ch = <<>>
             /\ \A k \in 1 .. Len(errs) : IsCancellation(errs[k])
             /\ (cpc \in {"closing", "done"} => Len(errs) = 1))

\* A run cancelled while its first page fetch was under way is over, with
\* the cancellation error sent.
FetchEarlyCancelConcluded ==
    /\ CancelledBeforeAnyPage
    /\ Launched # {}
    /\ FetchOver
    /\ received = <<>>
    /\ errs = <<"canceled">>

\* C18: in no step that follows the triggering of the caller's token is a
\* page index allocated or a task started.
FetchNoLaunchAfterCancel ==
    [][callerCancelled => (page' = page /\ fetched' = fetched)]_vars

\* C19: Acquire returns nil only with one more slot occupied, returns an
\* error only when the context is done and then with no slot occupied, and an
\* Acquire entered with the context already done returns the error instead of
\* taking a free slot.
AcquireContract ==
    [][cpc = "acquire" =>
          /\ cpc' = "launch" => sem' = sem + 1
          /\ cpc' = "returned" => (CtxDone /\ sem' = sem /\ retErr' # "nil")
          /\ CtxDone => cpc' # "launch"]_vars

\* C20: the page indices handed to tasks are 0, 1, 2, ... in that order, one
\* per launched task, with no gap and no index handed out twice.
FetchIndicesConsecutive ==
    /\ fetched = [k \in 1 .. Len(fetched) |-> k - 1]
    /\ Len(fetched) = page + 1
    /\ Launched = 0 .. page

\* Every index of the page budget has been handed to a task.
FetchAllIndicesAllocated ==
    /\ Len(fetched) = MaxPage + 1
    /\ page = MaxPage

-----------------------------------------------------------------------------
(* The scheduling loop, the has-more flag and the permits                    *)

\* The true last page of the results is L and it is full: every page fetched
\* up to L came back full, every page fetched beyond L came back short, and
\* no request failed.
LastPageFullAt(L) ==
    /\ L \in Launched
    /\ \A p \in Launched :
          /\ pc[p] # "search"
          /\ terr[p] = "nil"
          /\ sval[p].Events = (IF p <= L THEN PageSize ELSE PageSize - 1)

\* C21: when the true last page L < maxPages is full, with no failure and no
\* cancellation and a concurrency of 1 or more, the finished run has issued
\* the fetch of index L+1 and no fetch of an index above L+1.
FetchOneFetchBeyondFullLastPage ==
    \A L \in 0 .. MaxPage :
        (/\ FetchOver
         /\ ~callerCancelled
         /\ concurrency >= 1
         /\ L < maxPages
         /\ LastPageFullAt(L))
            => /\ \E k \in 1 .. Len(fetched) : fetched[k] = L + 1
               /\ \A k \in 1 .. Len(fetched) : fetched[k] <= L + 1

\* C22: the response channel is closed only after every launched page-fetch
\* task has finished: no task is running, inside the OrderedBuffer or
\* elsewhere, once the channel is closed, and no send on the closed channel
\* happens.
FetchClosesAfterTasks ==
    closed => (Running = {} /\ ~panicked)

\* C23: a slot is acquired for a new task, and a page index is allocated and
\* the task launched, only in a state where has-more is true and the page
\* index bound has not been reached.
FetchLaunchesOnlyWhileHasMore ==
    [][/\ (cpc = "acquire" /\ cpc' = "launch") => (hasMore /\ page < maxPages)
       /\ (Len(fetched') > Len(fetched)) => (hasMore /\ page < maxPages)]_vars

\* C24: the permits held are exactly those of the tasks in flight (and the
\* one just acquired for the task about to be launched), so every task that
\* completes, however its fetch ended, has given back its one slot; once the
\* loop has stopped and every task has finished no permit is held.
FetchPermitsReleased ==
    /\ sem = Cardinality(InFlight) + (IF cpc = "launch" THEN 1 ELSE 0)
    /\ (cpc \in {"wait", "returned", "closing", "done"} /\ Running = {})
          => sem = 0

\* A finished run with a full page, a short page and a failed fetch, all
\* permits given back.
FetchAllKindsReleased ==
    /\ FetchOver
    /\ Running = {}
    /\ sem = 0
    /\ \E p, q, r \in Launched :
          /\ terr[p] = "nil" /\ sval[p].Events = PageSize
          /\ terr[q] = "nil" /\ sval[q].Events < PageSize
          /\ terr[r] = "fetch"

\* C25: the has-more flag is true when the loop starts and, once false, is
\* never true again.
FetchHasMoreWriteOnce ==
    [][/\ (cpc = "create" /\ cpc' = "acquire") => hasMore'
       /\ (cpc # "create" /\ ~hasMore) => ~hasMore']_vars

\* The flag is false after a short page, and a task that received a full
\* page has passed its own test of the page.
FetchHasMoreStaysFalse ==
    /\ ~hasMore
    /\ \E p, q \in Launched :
          /\ pc[p] = "done" /\ terr[p] = "nil" /\ sval[p].Events < PageSize
          /\ pc[q] \in {"release", "done"}
          /\ terr[q] = "nil" /\ sval[q].Events = PageSize

\* C26: a task sets has-more to false exactly when its fetch returned an
\* error, no response (written here as an event count of -1) or fewer than
\* pageSize events; a task whose page has pageSize events or more leaves the
\* flag as it is.
FetchHasMoreVerdict ==
    /\ [](/\ \A n \in {0 - 1, 0, PageSize - 1, PageSize, PageSize + 1} :
               ShouldStopFetching("nil", n, PageSize) <=> (n < PageSize)
          /\ \A e \in {"fetch", "canceled"}, n \in {0 - 1, PageSize} :
               ShouldStopFetching(e, n, PageSize))
    /\ [][\A p \in Threads :
             (pc[p] \in {"ret", "failed"} /\ pc'[p] = "release") =>
                 IF terr[p] # "nil" \/ sval[p].Events < PageSize
                 THEN ~hasMore'
                 ELSE hasMore' = hasMore]_vars

\* A task has received a full page and has-more is still true.
FetchFullPageKeepsHasMore ==
    /\ hasMore
    /\ \E p \in Launched :
          /\ pc[p] \in {"release", "done"}
          /\ terr[p] = "nil"
          /\ sval[p].Events = PageSize

-----------------------------------------------------------------------------
(* The mutex, the cursor and the map of the OrderedBuffer, under SpecOB      *)

\* C27: a caller at the channel send does not hold the mutex: while a caller
\* is at (or blocked in) the send, the mutex is free and any caller about to
\* insert its page into the map can do so.
OBEmitsWithoutMutex ==
    \A t \in Threads :
        pc[t] = "emit" =>
            /\ mu = {}
            /\ \A u \in Threads : pc[u] = "store" => ENABLED StoreInsert(u)

\* A caller is blocked in the channel send while another is about to insert.
OBBlockedEmitterAndInserter ==
    \E t, u \in Threads :
        /\ pc[t] = "emit"
        /\ ~CanSend
        /\ pc[u] = "store"

\* C28: lastSentIdx starts at -1 and changes only by +1, to an index that is
\* in the map and is removed from it in the same step; the map never holds
\* an index at or below lastSentIdx.
OBCursorInvariant ==
    /\ lastSentIdx = 0 - 1
    /\ [][lastSentIdx' # lastSentIdx =>
             /\ lastSentIdx' = lastSentIdx + 1
             /\ lastSentIdx' \in DOMAIN responses
             /\ lastSentIdx' \notin DOMAIN responses']_vars
    /\ [](\A i \in DOMAIN responses : i > lastSentIdx)

\* The cursor has advanced past index 0 and the map holds a later index
\* behind a gap.
OBCursorAdvancedWithGap ==
    /\ lastSentIdx = 0
    /\ DOMAIN responses = {MaxPage}

\* C29: while index g has not been stored, no value with an index above g
\* has been taken out of the map or emitted, and every index above g that
\* has been stored is still in the map.
OBGapStalls ==
    \A g \in Indices :
        pc[g] \in {"idle", "store"} =>
            /\ \A k \in 1 .. Len(Output) : Output[k].Page < g
            /\ \A t \in Threads : resp[t] # <<>> => resp[t][1].Page < g
            /\ \A i \in Indices :
                  (i > g /\ pc[i] \notin {"idle", "store"})
                      => i \in DOMAIN responses

\* Index 0 was never stored, every higher index was, and nothing was emitted.
OBEverythingBehindGap ==
    /\ pc[0] = "idle"
    /\ \A t \in Threads \ {0} : pc[t] = "ret"
    /\ DOMAIN responses = Indices \ {0}
    /\ Output = <<>>

\* C30: whenever no Store call is in progress, the map does not hold the
\* next expected index lastSentIdx+1.
OBQuiescentDrained ==
    (\A t \in Threads : pc[t] \in {"idle", "ret"})
        => (lastSentIdx + 1) \notin DOMAIN responses

\* Overlapping Store calls have all returned and every index was drained.
OBQuiescentAfterOverlap ==
    /\ AllReturned
    /\ overlap
    /\ lastSentIdx = MaxPage
    /\ DOMAIN responses = {}

-----------------------------------------------------------------------------
(* The two channels of Fetch, as seen by a caller that drains both           *)

\* C31: the response channel is closed before any error is sent on the error
\* channel and before the error channel is closed, and once an error has
\* been received or the error channel is closed no further page is received.
FetchResponsesCloseFirst ==
    /\ []((errs # <<>> \/ errClosed \/ cpc \in {"closing", "done"}) => closed)
    /\ [][(errs # <<>> \/ errClosed) => received' = received]_vars

\* Pages were delivered, then an error was sent and both channels are closed.
FetchErrorAfterPages ==
    /\ received # <<>>
    /\ errs # <<>>
    /\ closed
    /\ errClosed

\* C32: at most one error is sent on the error channel, however many tasks
\* fail; the error channel is closed only after the goroutine of Fetch is
\* through with its send, and nothing is sent on it once it is closed.
FetchAtMostOneError ==
    /\ [](/\ Len(errs) <= 1
          /\ errClosed => cpc = "done"
          /\ (errClosed /\ retErr # "nil") => errs = <<retErr>>)
    /\ [][errClosed => errs' = errs]_vars

\* Two fetches failed at the endpoint, one error was sent and the error
\* channel is closed.
FetchTwoFailuresOneError ==
    /\ \E p, q \in Launched : p # q /\ terr[p] = "fetch" /\ terr[q] = "fetch"
    /\ Len(errs) = 1
    /\ errClosed

-----------------------------------------------------------------------------
(* The commands that call Fetch: model.executeQuery and execCount            *)

\* The variables of the fetch engine a step of the command's select loop
\* leaves alone.
cmdFrame == <<cmd, maxPages, concurrency, sem, semCap, cpc, page, hasMore,
              callerCancelled, gCancelled, gerr, retErr, terr, errClosed,
              errs, fetched, panicked>>

\* tui.go 529-531: executeQuery calls Fetch with SetConcurrency(m.concurrency)
\* (at least 1, search.go 274-280) and MaxPage(m.maxPages); loggly.go 126-128:
\* execCount calls it with neither, so both are 0.
InitCmd ==
    /\ NewOrderedBuffer
    /\ chCap = 0
    /\ ch = <<>>
    /\ closed = FALSE
    /\ received = <<>>
    /\ pc = [t \in Threads |-> "idle"]
    /\ sval = [t \in Threads |-> Response(0, 0)]
    /\ resp = [t \in Threads |-> <<>>]
    /\ overlap = FALSE
    /\ \/ /\ cmd = "executeQuery"
          /\ maxPages \in 0 .. MaxPage
          /\ concurrency \in 1 .. MaxConcurrency
       \/ /\ cmd = "execCount"
          /\ maxPages = 0
          /\ concurrency = 0
    /\ msg = "none"
    /\ sem = 0
    /\ semCap = 0
    /\ cpc = "create"
    /\ page = 0 - 1
    /\ hasMore = TRUE
    /\ callerCancelled = FALSE
    /\ gCancelled = FALSE
    /\ gerr = "nil"
    /\ retErr = "nil"
    /\ terr = [t \in Threads |-> "nil"]
    /\ errClosed = FALSE
    /\ errs = <<>>
    /\ fetched = <<>>
    /\ panicked = FALSE

\* The select loop takes the receive from the response channel while a task
\* is at its send (orderedbuffer.go 87). tui.go 539-552: executeQuery adds
\* the events to its results and goes round; loggly.go 135-137: execCount
\* prints r.Total and returns.
CmdReceivePage(p) ==
    /\ ~panicked
    /\ msg = "none"
    /\ Emit(p)
    /\ msg' = (IF cmd = "execCount" THEN "total" ELSE "none")
    /\ UNCHANGED cmdFrame

\* The select loop takes the receive from the response channel after it was
\* closed: the receive yields a zero Response and ok = false. tui.go 540-542:
\* executeQuery returns resultsMsg{results: results}; loggly.go 135-137:
\* execCount, which does not look at ok, prints the Total of the zero
\* Response and returns.
CmdReceiveClosed ==
    /\ ~panicked
    /\ msg = "none"
    /\ closed
    /\ msg' = (IF cmd = "execCount" THEN "zero" ELSE "results")
    /\ UNCHANGED obVars
    /\ UNCHANGED cmdFrame

\* search.go 453-455 meets the select loop's receive from the error channel:
\* tui.go 553-556 returns resultsMsg{err: err}, loggly.go 138-140 reports the
\* error through check(e).
CmdReceiveErr ==
    /\ ~panicked
    /\ msg = "none"
    /\ cpc = "returned"
    /\ retErr # "nil"
    /\ errs' = Append(errs, retErr)
    /\ cpc' = "closing"
    /\ msg' = retErr
    /\ UNCHANGED obVars
    /\ UNCHANGED <<cmd, maxPages, concurrency, sem, semCap, page, hasMore,
                   callerCancelled, gCancelled, gerr, retErr, terr, errClosed,
                   fetched, panicked>>

\* The select loop takes the receive from the error channel after it was
\* closed: the receive yields nil. tui.go 553-556: executeQuery goes round
\* its loop; loggly.go 138-140: check(nil) does nothing and execCount returns
\* with nothing printed.
CmdReceiveErrClosed ==
    /\ ~panicked
    /\ msg = "none"
    /\ errClosed
    /\ msg' = (IF cmd = "execCount" THEN "silent" ELSE msg)
    /\ UNCHANGED obVars
    /\ UNCHANGED cmdFrame

\* The select loop takes <-ctx.Done(): tui.go 537-538 returns
\* resultsMsg{err: m.ctx.Err()}, loggly.go 132-134 reports ctx.Err().
CmdCtxDone ==
    /\ ~panicked
    /\ msg = "none"
    /\ callerCancelled
    /\ msg' = "canceled"
    /\ UNCHANGED obVars
    /\ UNCHANGED cmdFrame

\* A step of a page-fetch task inside responsesStore.Store, short of the
\* channel send.
CmdTaskBufferStep(p) ==
    /\ ~panicked
    /\ (StoreInsert(p) \/ SendPop(p))
    /\ UNCHANGED fetchVars

CmdTaskStep(p) ==
    \/ \E n \in EventCounts : SearchOk(p, n)
    \/ SearchFails(p)
    \/ CmdTaskBufferStep(p)
    \/ CmdReceivePage(p)
    \/ EmitPanic(p)
    \/ TaskDecide(p)
    \/ TaskRelease(p)
    \/ TaskExit(p)

CmdCoordinatorStep ==
    \/ CreateSearchFails
    \/ CreateSearchOk
    \/ AcquireSlot
    \/ AcquireCancelled
    \/ Launch
    \/ CheckBreak
    \/ Wait
    \/ CmdReceiveErr
    \/ CloseErr

CmdSelectStep ==
    \/ CmdReceiveClosed
    \/ CmdReceiveErrClosed
    \/ CmdCtxDone

NextCmd ==
    \/ CmdCoordinatorStep
    \/ \E p \in Threads : CmdTaskStep(p)
    \/ CmdSelectStep
    \/ Cancel

SpecCmd == InitCmd /\ [][NextCmd]_vars

\* C33: when the fetchAllPages of the Fetch that executeQuery started returns
\* an error, of the session creation or of a page fetch, the resultsMsg that
\* executeQuery produces is never a successful result set.
QueryReportsFailure ==
    (cmd = "executeQuery" /\ retErr # "nil" /\ ~callerCancelled)
        => msg # "results"

\* C34: execCount ends with the total of a page it received or with the
\* error Fetch surfaced, never with the Total of the zero Response read off
\* the closed response channel.
CountNeverFromClosedChannel ==
    cmd = "execCount" =>
        /\ msg # "zero"
        /\ msg \in {"none", "total", "create", "createCanceled", "fetch",
                    "canceled"}

====
